---------------------------- MODULE Spec2Model ----------------------------
(***************************************************************************)
(* Model of src/utils/preprocessing.py (remove_nan_samples,                *)
(* train_val_test_split, _get_set_indices) and of                          *)
(* src/utils/artifacts_reporter.py (collect_artifacts_report).             *)
(*                                                                         *)
(* The functions are synchronous and keep no state between calls, so each  *)
(* specification draws the arguments of one call in its initial state and  *)
(* its actions run the call to completion.  numpy arrays are sequences;    *)
(* index arrays hold the 0-based indices numpy uses, so arr[i] of the code *)
(* is arr[i + 1] here.  A float size is the exact rational num / den.      *)
(* A raised exception is the "status" of the call's result.                *)
(***************************************************************************)
EXTENDS Integers, Sequences, FiniteSets

VARIABLES
    pc,            \* "ready" before the call, "done" after it
    op,            \* the function that was called
    data,          \* split: the samples (sample identifiers), shuffled in place
    labels,        \* split: the label vector, shuffled in place with data
    train_size,    \* split: argument
    val_size,      \* split: argument
    result,        \* split: what the call returned or raised
    nan_data,      \* remove_nan_samples: argument data [SAMPLES, ...]
    nan_labels,    \* remove_nan_samples: argument labels
    nan_result,    \* remove_nan_samples: the returned (data, labels)
    all_metrics,   \* reporter: what io.load_metrics returned
    dest_path,     \* reporter: argument
    dirs,          \* reporter: directories created by os.makedirs
    saved,         \* reporter: the calls of io.save_metrics made so far
    report         \* reporter: status and the local variables of the call

vars == <<pc, op, data, labels, train_size, val_size, result,
          nan_data, nan_labels, nan_result,
          all_metrics, dest_path, dirs, saved, report>>

splitVars == <<data, labels, train_size, val_size, result>>
nanVars == <<nan_data, nan_labels, nan_result>>
reportVars == <<all_metrics, dest_path, dirs, saved, report>>

----------------------------------------------------------------------------
(* Bounds *)

MaxN == 3          \* largest number of samples of a split
FracDen == 4       \* float sizes are the multiples of 1 / FracDen and 1 / (FracDen - 1)
MaxSamples == 3    \* largest number of samples given to remove_nan_samples
MaxWidth == 2      \* largest number of elements of one sample
MaxRuns == 2       \* largest number of experiment runs loaded

Classes == {0, 1}

----------------------------------------------------------------------------
(* numpy helpers *)

Range(s) == {s[i] : i \in 1..Len(s)}

Min(S) == CHOOSE x \in S : \A y \in S : x <= y

Max(S) == CHOOSE x \in S : \A y \in S : x >= y

RECURSIVE SortSet(_)
SortSet(S) == IF S = {} THEN <<>> ELSE <<Min(S)>> \o SortSet(S \ {Min(S)})

\* np.arange(n): 0, 1, ..., n - 1
arange(n) == [i \in 1..n |-> i - 1]

\* np.setdiff1d(a, b): the sorted unique values of a that are not in b
setdiff1d(a, b) == SortSet(Range(a) \ Range(b))

\* arr[idx] with an integer index array: every index must lie in [-len, len)
index_in_bounds(arr, idx) ==
    \A i \in 1..Len(idx) : idx[i] >= -Len(arr) /\ idx[i] < Len(arr)

take(arr, idx) ==
    [i \in 1..Len(idx) |->
        IF idx[i] >= 0 THEN arr[idx[i] + 1] ELSE arr[Len(arr) + idx[i] + 1]]

\* arr[:n] for n >= 0
head(arr, n) == SubSeq(arr, 1, IF n < Len(arr) THEN n ELSE Len(arr))

RECURSIVE concatenate(_)
concatenate(arrs) ==
    IF arrs = <<>> THEN <<>> ELSE Head(arrs) \o concatenate(Tail(arrs))

Permutations(n) ==
    {p \in [1..n -> 1..n] : \A i, j \in 1..n : p[i] = p[j] => i = j}

----------------------------------------------------------------------------
(* Size specifications: the type of the Python object decides the handler *)

FloatSize(n, d) == [type |-> "float", num |-> n, den |-> d, list |-> <<>>]
IntSize(v) == [type |-> "int", num |-> v, den |-> 1, list |-> <<>>]
ListSize(l) == [type |-> "list", num |-> 0, den |-> 1, list |-> l]
StrSize == [type |-> "str", num |-> 0, den |-> 1, list |-> <<>>]

FloatSizes ==
    {FloatSize(k, d) : k \in -1..(FracDen + 1), d \in {FracDen - 1, FracDen}}
IntSizes == {IntSize(v) : v \in -1..(MaxN + 1)}
ListSizes == {ListSize(l) : l \in {<<>>, <<1>>, <<2, 1>>, <<1, 2, 1>>}}
Sizes == FloatSizes \cup IntSizes \cup ListSizes \cup {StrSize}

Raised(e) == [status |-> e, indices |-> <<>>]
Returned(ix) == [status |-> "ok", indices |-> ix]

\* int(x) replaced by a rounding up
int_round_up(numer, den) == (numer + den - 1) \div den

\* int(x) of a non-negative float x = numer / den: truncation
int_of(numer, den) == numer \div den

\* @_get_set_indices.register(float)
float_handler(size, lbls) ==
    IF ~(0 < size.num /\ size.num <= size.den)
    THEN Raised("AssertionError")
    ELSE Returned(arange(int_of(Len(lbls) * size.num, size.den)))

\* the integer handler with the check "size < 0": a count of 0 passes
int_handler_accepts_zero(size, lbls) ==
    IF size.num < 0
    THEN Raised("AssertionError")
    ELSE Returned(arange(size.num))

\* @_get_set_indices.register(int)
int_handler(size, lbls) ==
    IF size.num < 1
    THEN Raised("AssertionError")
    ELSE Returned(arange(size.num))

\* utils.get_label_indices_per_class(labels, return_uniques=True): for every
\* unique label, in sorted order, the positions that hold it, in array order
unique_labels(lbls) == SortSet(Range(lbls))

label_indices_per_class(lbls) ==
    [c \in 1..Len(unique_labels(lbls)) |->
        SortSet({i - 1 : i \in {j \in 1..Len(lbls) : lbls[j] = unique_labels(lbls)[c]}})]

\* the body of the handler registered for list
list_body(size, lbls) ==
    LET label_indices == label_indices_per_class(lbls)
        n == Len(unique_labels(lbls))
    IN  IF Len(size.list) = 1
        THEN Raised("TypeError")      \* zip(int(size[0]), ...): an int is not iterable
        ELSE IF n = 0
        THEN Raised("ValueError")     \* np.concatenate of an empty list
        ELSE Returned(concatenate(
                [c \in 1..n |->
                    IF c <= Len(size.list)
                    THEN head(label_indices[c], size.list[c])
                    ELSE label_indices[c]]))

\* the handler registered for list declares the parameters (size, labels, _)
ListHandlerParams == 3

\* singledispatch calls the handler with the arguments of the call
list_handler(size, lbls, nargs) ==
    IF nargs # ListHandlerParams
    THEN Raised("TypeError")          \* missing 1 required positional argument
    ELSE list_body(size, lbls)

\* train_val_test_split calls _get_set_indices(size, labels)
ArgsPassed == 2

\* functools.singledispatch on type(size)
get_set_indices(size, lbls) ==
    CASE size.type = "float" -> float_handler(size, lbls)
      [] size.type = "int" -> int_handler(size, lbls)
      [] size.type = "list" -> list_handler(size, lbls, ArgsPassed)
      [] OTHER -> Raised("NotImplementedError")

----------------------------------------------------------------------------
(* train_val_test_split *)

NoSplit(e) ==
    [status |-> e, selected |-> <<>>, train |-> <<>>, val |-> <<>>, test |-> <<>>,
     train_x |-> <<>>, train_y |-> <<>>, val_x |-> <<>>, val_y |-> <<>>,
     test_x |-> <<>>, test_y |-> <<>>]

\* line 92 with the arguments of setdiff1d swapped
test_indices_swapped(d, train_indices) == setdiff1d(train_indices, arange(Len(d)))

\* line 93 left out: the validation indices stay in the training set
final_train_keeps_val(train_indices, val_indices) == SortSet(Range(train_indices))

\* line 92
test_indices_of(d, train_indices) == setdiff1d(arange(Len(d)), train_indices)

\* line 93
final_train_indices(train_indices, val_indices) == setdiff1d(train_indices, val_indices)

\* lines 89-95, on the shuffled arrays
split_of(d, lbls, tsize, vsize) ==
    LET tr == get_set_indices(tsize, lbls)
    IN  IF tr.status # "ok" THEN NoSplit(tr.status)
        ELSE IF ~index_in_bounds(lbls, tr.indices) THEN NoSplit("IndexError")
        ELSE
        LET train_indices == tr.indices
            vr == get_set_indices(vsize, take(lbls, train_indices))
        IN  IF vr.status # "ok" THEN NoSplit(vr.status)
            ELSE IF ~index_in_bounds(train_indices, vr.indices) THEN NoSplit("IndexError")
            ELSE
            LET val_indices == take(train_indices, vr.indices)
                test_indices == test_indices_of(d, train_indices)
                train_final == final_train_indices(train_indices, val_indices)
            IN  [status |-> "ok", selected |-> train_indices,
                 train |-> train_final, val |-> val_indices, test |-> test_indices,
                 train_x |-> take(d, train_final), train_y |-> take(lbls, train_final),
                 val_x |-> take(d, val_indices), val_y |-> take(lbls, val_indices),
                 test_x |-> take(d, test_indices), test_y |-> take(lbls, test_indices)]

\* utils.shuffle_arrays_together([data, labels], seed): one permutation, fixed
\* by the seed, applied to every array in place
shuffled(arr, p) == [i \in 1..Len(arr) |-> arr[p[i]]]

NoResult == NoSplit("none")

NoNanResult == [data |-> <<>>, labels |-> <<>>]

NoMetrics == [metric_keys |-> <<>>, metric_values |-> <<>>]

NoPath == [root |-> "", ext |-> ""]

NoReport ==
    [status |-> "none", aggregated |-> FALSE, keys |-> <<>>, artifacts |-> <<>>,
     stat_report |-> <<>>]

InitSplit ==
    /\ pc = "ready"
    /\ op = "none"
    /\ \E n \in 0..MaxN :
        /\ data = [i \in 1..n |-> i]
        /\ labels \in [1..n -> Classes]
    /\ train_size \in Sizes
    /\ val_size \in Sizes
    /\ result = NoResult
    /\ nan_data = <<>> /\ nan_labels = <<>> /\ nan_result = NoNanResult
    /\ all_metrics = NoMetrics /\ dest_path = NoPath /\ dirs = {} /\ saved = <<>>
    /\ report = NoReport

train_val_test_split ==
    /\ pc = "ready"
    /\ \E p \in Permutations(Len(data)) :
        /\ data' = shuffled(data, p)
        /\ labels' = shuffled(labels, p)
        /\ result' = split_of(shuffled(data, p), shuffled(labels, p), train_size, val_size)
    /\ pc' = "done"
    /\ op' = "split"
    /\ UNCHANGED <<train_size, val_size>>
    /\ UNCHANGED nanVars
    /\ UNCHANGED reportVars

\* size resolution alone: _get_set_indices(train_size, labels)
resolve_size ==
    /\ pc = "ready"
    /\ result' = [NoResult EXCEPT !.status = get_set_indices(train_size, labels).status,
                                  !.selected = get_set_indices(train_size, labels).indices]
    /\ pc' = "done"
    /\ op' = "resolve"
    /\ UNCHANGED <<data, labels, train_size, val_size>>
    /\ UNCHANGED nanVars
    /\ UNCHANGED reportVars

NextSplit == train_val_test_split \/ resolve_size

SplitSpec == InitSplit /\ [][NextSplit]_vars

----------------------------------------------------------------------------
(* remove_nan_samples *)

\* an element of the data array: a float, NaN among them
Elements == {"nan", "1.0"}

isnan(x) == x = "nan"

\* the mask of the docstring: samples which contain only nan values
nan_samples_all(d) ==
    [i \in 1..Len(d) |-> \A j \in 1..Len(d[i]) : isnan(d[i][j])]

\* np.isnan(data).any(axis=all_but_samples_axes).ravel()
nan_samples_indexes(d) ==
    [i \in 1..Len(d) |-> \E j \in 1..Len(d[i]) : isnan(d[i][j])]

\* ~mask
invert(mask) == [i \in 1..Len(mask) |-> ~mask[i]]

\* arr[mask] with a boolean mask of the length of arr
RECURSIVE mask_select(_, _)
mask_select(arr, mask) ==
    IF arr = <<>> THEN <<>>
    ELSE (IF Head(mask) THEN <<Head(arr)>> ELSE <<>>)
            \o mask_select(Tail(arr), Tail(mask))

remove_nan_samples_of(d, lbls) ==
    [labels |-> mask_select(lbls, invert(nan_samples_indexes(d))),
     data |-> mask_select(d, invert(nan_samples_indexes(d)))]

InitNan ==
    /\ pc = "ready"
    /\ op = "none"
    /\ \E n \in 0..MaxSamples, w \in 0..MaxWidth :
        /\ nan_data \in [1..n -> [1..w -> Elements]]
        /\ nan_labels \in [1..n -> Classes]
    /\ nan_result = NoNanResult
    /\ data = <<>> /\ labels = <<>>
    /\ train_size = StrSize /\ val_size = StrSize
    /\ result = NoResult
    /\ all_metrics = NoMetrics /\ dest_path = NoPath /\ dirs = {} /\ saved = <<>>
    /\ report = NoReport

remove_nan_samples ==
    /\ pc = "ready"
    /\ nan_result' = remove_nan_samples_of(nan_data, nan_labels)
    /\ pc' = "done"
    /\ op' = "remove_nan"
    /\ UNCHANGED <<nan_data, nan_labels>>
    /\ UNCHANGED splitVars
    /\ UNCHANGED reportVars

NextNan == remove_nan_samples

NanSpec == InitNan /\ [][NextNan]_vars

----------------------------------------------------------------------------
(* collect_artifacts_report *)

\* the metric names and the value rows io.load_metrics reads, one of each per
\* experiment run; a value is the text of a csv cell
KeyTuples == {<<>>, <<"acc">>, <<"acc", "f1">>, <<"f1", "acc">>}
MetricRows == {<<>>, <<"1">>, <<"2", "1">>, <<"2", "x">>, <<"1", "2", "2">>}
DestPaths == {[root |-> "reports/summary", ext |-> ".csv"],
              [root |-> "reports", ext |-> ""]}

\* float(metric_value)
is_float_text(t) == t \in {"1", "2"}

float_of(t) == IF t = "1" THEN 1 ELSE 2

\* {k: [] for k in keys}: a dict keeps one entry per key, in insertion order
RECURSIVE dict_keys(_)
dict_keys(ks) ==
    IF ks = <<>> THEN <<>>
    ELSE LET front == dict_keys(SubSeq(ks, 1, Len(ks) - 1))
         IN  IF ks[Len(ks)] \in Range(front) THEN front
             ELSE Append(front, ks[Len(ks)])

\* the pairs zip(artifacts.keys(), metric_values) yields
zip_len(ks, row) == IF Len(ks) < Len(row) THEN Len(ks) ELSE Len(row)

position(ks, k) == CHOOSE i \in 1..Len(ks) : ks[i] = k

\* lines 42-44: float() raises on a cell that is no number
row_converts(ks, row) == \A i \in 1..zip_len(ks, row) : is_float_text(row[i])

append_row(art, ks, row) ==
    [k \in DOMAIN art |->
        IF position(ks, k) <= zip_len(ks, row)
        THEN Append(art[k], float_of(row[position(ks, k)]))
        ELSE art[k]]

RECURSIVE aggregate(_, _, _)
aggregate(art, ks, rows) ==
    IF rows = <<>> THEN art
    ELSE aggregate(append_row(art, ks, Head(rows)), ks, Tail(rows))

RECURSIVE Sum(_)
Sum(xs) == IF xs = <<>> THEN 0 ELSE Head(xs) + Sum(Tail(xs))

\* lines 48-51 for one metric; the mean is sum / n and the standard deviation
\* the square root of var_num / (n * n)
stats_of(xs) ==
    [sum |-> Sum(xs), n |-> Len(xs),
     var_num |-> Len(xs) * Sum([i \in 1..Len(xs) |-> xs[i] * xs[i]]) - Sum(xs) * Sum(xs),
     min |-> Min(Range(xs)), max |-> Max(Range(xs))]

\* line 38 with a check that only an empty load fails
names_inconsistent_only_empty(metric_keys) == Cardinality(metric_keys) = 0

\* line 38
names_inconsistent(metric_keys) == Cardinality(metric_keys) # 1

Failed(e) == [NoReport EXCEPT !.status = e]

\* lines 35-51: the status and the locals when the function returns or raises
report_of(metrics) ==
    LET metric_keys == Range(metrics.metric_keys)
    IN  IF names_inconsistent(metric_keys) THEN Failed("AssertionError")
        ELSE
        LET ks == dict_keys(CHOOSE t \in metric_keys : TRUE)
            empty == [k \in Range(ks) |-> <<>>]
            rows == metrics.metric_values
        IN  IF \E r \in 1..Len(rows) : ~row_converts(ks, rows[r])
            THEN [Failed("ValueError") EXCEPT !.keys = ks]
            ELSE
            LET artifacts == aggregate(empty, ks, rows)
            IN  IF \E k \in Range(ks) : artifacts[k] = <<>>
                THEN [status |-> "ValueError", aggregated |-> TRUE, keys |-> ks,
                      artifacts |-> artifacts, stat_report |-> <<>>]
                ELSE [status |-> "ok", aggregated |-> TRUE, keys |-> ks,
                      artifacts |-> artifacts,
                      stat_report |-> [k \in Range(ks) |-> stats_of(artifacts[k])]]

\* os.path.splitext(dest_path)[EXTENSION]
EXTENSION == 1

splitext(path) == <<path.root, path.ext>>

InitReport ==
    /\ pc = "ready"
    /\ op = "none"
    /\ \E r \in 0..MaxRuns :
        all_metrics \in [metric_keys : [1..r -> KeyTuples],
                         metric_values : [1..r -> MetricRows]]
    /\ dest_path \in DestPaths
    /\ dirs = {}
    /\ saved = <<>>
    /\ report = NoReport
    /\ data = <<>> /\ labels = <<>>
    /\ train_size = StrSize /\ val_size = StrSize
    /\ result = NoResult
    /\ nan_data = <<>> /\ nan_labels = <<>> /\ nan_result = NoNanResult

collect_artifacts_report ==
    /\ pc = "ready"
    /\ report' = report_of(all_metrics)
    /\ IF report_of(all_metrics).status # "ok"
       THEN UNCHANGED <<dirs, saved>>
       ELSE IF Len(splitext(dest_path)[EXTENSION + 1]) # 0
       THEN /\ saved' = Append(saved, [path |-> dest_path, file_name |-> "",
                                       metrics |-> report_of(all_metrics).stat_report])
            /\ UNCHANGED dirs
       ELSE /\ dirs' = dirs \cup {dest_path}
            /\ saved' = Append(saved, [path |-> dest_path, file_name |-> "report.csv",
                                       metrics |-> report_of(all_metrics).stat_report])
    /\ pc' = "done"
    /\ op' = "collect"
    /\ UNCHANGED <<all_metrics, dest_path>>
    /\ UNCHANGED splitVars
    /\ UNCHANGED nanVars

NextReport == collect_artifacts_report

ReportSpec == InitReport /\ [][NextReport]_vars

----------------------------------------------------------------------------
(* Claims about train_val_test_split and size resolution, under SplitSpec *)

N == Len(labels)

SplitReturned == op = "split" /\ result.status = "ok"

NoDuplicates(s) == Cardinality(Range(s)) = Len(s)

\* floor(n * num / den) without using the division of the model
IsFloor(k, n, num, den) == k * den <= n * num /\ n * num < (k + 1) * den

\* C1: whenever train_val_test_split returns, the train, validation and test
\* index sets are pairwise disjoint and len(train) + len(val) + len(test) <= N.
C1_SplitDisjoint ==
    SplitReturned =>
        /\ Range(result.train) \cap Range(result.val) = {}
        /\ Range(result.train) \cap Range(result.test) = {}
        /\ Range(result.val) \cap Range(result.test) = {}
        /\ Len(result.train) + Len(result.val) + Len(result.test) <= N
        /\ Len(result.train_x) = Len(result.train)
        /\ Len(result.val_x) = Len(result.val)
        /\ Len(result.test_x) = Len(result.test)

C1_Witness ==
    /\ SplitReturned
    /\ result.train # <<>> /\ result.val # <<>> /\ result.test # <<>>

\* the indices the claim C2 expects of list mode: for class c the first
\* count(c) positions of that class, concatenated in class order
C2_Count(c) ==
    IF Len(train_size.list) = 1 THEN train_size.list[1]
    ELSE IF c <= Len(train_size.list) THEN train_size.list[c]
    ELSE 0

C2_Expected ==
    concatenate([c \in 1..Len(unique_labels(labels)) |->
        head(label_indices_per_class(labels)[c], C2_Count(c))])

\* C2: size resolution in per-class list mode, called with (size, labels),
\* returns for each class the first size[i] indices of the class, a one-element
\* list being broadcast and a class without an entry contributing nothing.
C2_ListModePerClass ==
    (op = "resolve" /\ train_size.type = "list") =>
        /\ result.status = "ok"
        /\ result.selected = C2_Expected

\* C3: size resolution in fraction mode with 0 < size <= 1 returns exactly the
\* positions 0 .. floor(N * size) - 1, in order, whatever the labels are.
C3_FractionPrefix ==
    (/\ op = "resolve"
     /\ train_size.type = "float"
     /\ 0 < train_size.num /\ train_size.num <= train_size.den) =>
        /\ result.status = "ok"
        /\ \E k \in 0..N :
            /\ IsFloor(k, N, train_size.num, train_size.den)
            /\ result.selected = [i \in 1..k |-> i - 1]

C3_Witness ==
    /\ op = "resolve"
    /\ train_size.type = "float"
    /\ 0 < train_size.num /\ train_size.num < train_size.den
    /\ Cardinality(Range(labels)) = 2
    /\ Len(result.selected) >= 1
    /\ Len(result.selected) * train_size.den < N * train_size.num

\* C4: val_size is resolved in fraction mode whatever its type: on return the
\* validation set is the first floor(T * val_size) entries of the resolved
\* training indices (T of them).
C4_ValAlwaysFraction ==
    SplitReturned =>
        \E k \in 0..(Len(result.selected) * (MaxN + 1)) :
            /\ IsFloor(k, Len(result.selected), val_size.num, val_size.den)
            /\ result.val = SubSeq(result.selected, 1, k)

Invalid(size) ==
    \/ size.type = "float" /\ ~(0 < size.num /\ size.num <= size.den)
    \/ size.type = "int" /\ size.num < 1
    \/ size.type \notin {"float", "int", "list"}

ExpectedError(size) ==
    IF size.type \in {"float", "int"} THEN "AssertionError" ELSE "NotImplementedError"

\* a train_size whose resolution succeeds and indexes the labels
Fits(size) ==
    \/ size.type = "float" /\ 0 < size.num /\ size.num <= size.den
    \/ size.type = "int" /\ 1 <= size.num /\ size.num <= N

NothingReturned ==
    /\ result.selected = <<>>
    /\ result.train = <<>> /\ result.val = <<>> /\ result.test = <<>>
    /\ result.train_x = <<>> /\ result.val_x = <<>> /\ result.test_x = <<>>

C8_SplitPartition ==
    (SplitReturned /\ train_size.type \in {"float", "int"}) =>
        LET selected == Range(get_set_indices(train_size, labels).indices)
        IN  /\ Range(result.test) = (0..(N - 1)) \ selected
            /\ Range(result.val) \subseteq selected
            /\ Range(result.train) = selected \ Range(result.val)
            /\ NoDuplicates(result.train)
            /\ NoDuplicates(result.val)
            /\ NoDuplicates(result.test)
            /\ \A i \in 0..(N - 1) :
                Cardinality({s \in {"train", "val", "test"} : i \in Range(result[s])}) = 1

C8_Witness ==
    /\ SplitReturned
    /\ train_size.type = "int"
    /\ val_size.type = "float"
    /\ result.train # <<>> /\ result.val # <<>> /\ result.test # <<>>

\* C9: every index size resolution returns on a label vector of length N lies
\* in [0, N), in every mode, also for an integer count larger than N.
C9_IndicesInRange ==
    (op = "resolve" /\ result.status = "ok") =>
        \A i \in 1..Len(result.selected) :
            0 <= result.selected[i] /\ result.selected[i] < N

----------------------------------------------------------------------------
(* Claims about remove_nan_samples, under NanSpec *)

HasNan(sample) == \E j \in 1..Len(sample) : sample[j] = "nan"

Retained == SortSet({i \in 1..Len(nan_data) : ~HasNan(nan_data[i])})

----------------------------------------------------------------------------
(* Claims about collect_artifacts_report, under ReportSpec *)

Runs == 1..Len(all_metrics.metric_keys)

\* C7: when the loaded runs do not all report the same metric names, the call
\* fails with a consistency error before the destination directory is created
\* and before save_metrics is called.
C7_InconsistentNamesFail ==
    (/\ op = "collect"
     /\ \E r1, r2 \in Runs :
            Range(all_metrics.metric_keys[r1]) # Range(all_metrics.metric_keys[r2])) =>
        /\ report.status = "AssertionError"
        /\ dirs = {}
        /\ saved = <<>>

C7_Witness ==
    /\ op = "collect"
    /\ all_metrics.metric_keys = << <<"acc", "f1">>, <<"acc">> >>
    /\ report.status = "AssertionError"
    /\ saved = <<>>

\* C10: when the consistency check passes over R runs, the aggregated mapping
\* holds for every metric name a list of exactly R values, the r-th being the
\* value run r reported for it, whatever the length of a run's value row
\* (stated here for the calls that go on to write the report).
C10_AggregatesEveryRun ==
    (op = "collect" /\ report.aggregated /\ report.status = "ok") =>
        \A k \in DOMAIN report.artifacts :
            /\ Len(report.artifacts[k]) = Len(all_metrics.metric_values)
            /\ \A r \in Runs :
                LET p == position(all_metrics.metric_keys[r], k)
                IN  /\ p <= Len(all_metrics.metric_values[r])
                    /\ report.artifacts[k][r] = float_of(all_metrics.metric_values[r][p])

=============================================================================
